---- MODULE Spec2Model ----
(***************************************************************************)
(* Model of the ARINC 429 message codec (src/src/lib.rs, parity_error.rs). *)
(*                                                                         *)
(* A u32 is a bit vector [0..31 -> {0,1}], bit 0 the least significant     *)
(* bit, so that the full 32-bit width is kept.  A u8 is a number 0..255.   *)
(* Message(u32) and Label(u8) are tuple structs and are modelled as        *)
(* 1-tuples; text is a sequence of one-character strings.                  *)
(***************************************************************************)
EXTENDS Integers, Sequences, FiniteSets

VARIABLES raw, msg, arg, op, out

vars == <<raw, msg, arg, op, out>>

\* ------------------------------------------------------------------------
\* u32 / u8 arithmetic
\* ------------------------------------------------------------------------

Width == 32

Bit == 0..(Width - 1)

\* the u32 whose upper 16 bits are hi and lower 16 bits are lo
Hex(hi, lo) ==
    [i \in Bit |-> IF i < 16 THEN (lo \div (2 ^ i)) % 2
                             ELSE (hi \div (2 ^ (i - 16))) % 2]

BitAnd(a, b) == [i \in Bit |-> IF a[i] = 1 /\ b[i] = 1 THEN 1 ELSE 0]

BitOr(a, b) == [i \in Bit |-> IF a[i] = 1 \/ b[i] = 1 THEN 1 ELSE 0]

BitXor(a, b) == [i \in Bit |-> IF a[i] # b[i] THEN 1 ELSE 0]

Shl(a, k) == [i \in Bit |-> IF i >= k THEN a[i - k] ELSE 0]

Shr(a, k) == [i \in Bit |-> IF i + k < Width THEN a[i + k] ELSE 0]

RECURSIVE LowBits(_, _)
\* the number held in the n least significant bits of a
LowBits(a, n) == IF n = 0 THEN 0 ELSE a[0] + 2 * LowBits(Shr(a, 1), n - 1)

\* `x as u8`
AsU8(a) == LowBits(a, 8)

\* u8 ^ u8
Xor8(x, y) ==
    LET b(n, i) == (n \div (2 ^ i)) % 2
        RECURSIVE go(_)
        go(i) == IF i = 8 THEN 0
                 ELSE (IF b(x, i) # b(y, i) THEN 2 ^ i ELSE 0) + go(i + 1)
    IN go(0)

RECURSIVE count_ones_from(_, _)
count_ones_from(a, i) == IF i = Width THEN 0 ELSE a[i] + count_ones_from(a, i + 1)

\* u32::count_ones
count_ones(a) == count_ones_from(a, 0)

Zero == Hex(0, 0)

\* the u32 literals of the source
x000000ff == Hex(0, 255)

x00000001 == Hex(0, 1)

x00000002 == Hex(0, 2)

x00000004 == Hex(0, 4)

x00000008 == Hex(0, 8)

x00000010 == Hex(0, 16)

x00000020 == Hex(0, 32)

x00000040 == Hex(0, 64)

x00000080 == Hex(0, 128)

xffffff00 == Hex(65535, 65280)

\* ------------------------------------------------------------------------
\* Message
\* ------------------------------------------------------------------------

\* #[derive(Default)] struct Message(u32)
MessageDefault == <<Zero>>

\* From that clears the parity bit
From_clear_parity(b) == <<BitAnd(b, Hex(32767, 65535))>>

\* impl From<u32> for Message
From(b) == <<b>>

\* impl From<Message> for u32
IntoU32(m) == m[1]

bits(m) == m[1]

\* swap_label_bits with (label & 0x2) << 6 for (label & 0x2) << 5
swap_label_bits_wrong_shift(b) ==
    LET label == BitAnd(b, x000000ff)
        t1 == Shl(BitAnd(label, x00000001), 7)
        t2 == Shl(BitAnd(label, x00000002), 6)
        t3 == Shl(BitAnd(label, x00000004), 3)
        t4 == Shl(BitAnd(label, x00000008), 1)
        t5 == Shr(BitAnd(label, x00000010), 1)
        t6 == Shr(BitAnd(label, x00000020), 3)
        t7 == Shr(BitAnd(label, x00000040), 5)
        t8 == Shr(BitAnd(label, x00000080), 7)
        new_label == BitOr(BitOr(BitOr(BitOr(BitOr(BitOr(BitOr(t1, t2), t3), t4), t5), t6), t7), t8)
    IN BitOr(BitAnd(b, xffffff00), new_label)

xfffffff0 == Hex(65535, 65520)

\* swap_label_bits with the mask 0xfffffff0 for 0xffffff00
swap_label_bits_wrong_mask(b) ==
    LET label == BitAnd(b, x000000ff)
        t1 == Shl(BitAnd(label, x00000001), 7)
        t2 == Shl(BitAnd(label, x00000002), 5)
        t3 == Shl(BitAnd(label, x00000004), 3)
        t4 == Shl(BitAnd(label, x00000008), 1)
        t5 == Shr(BitAnd(label, x00000010), 1)
        t6 == Shr(BitAnd(label, x00000020), 3)
        t7 == Shr(BitAnd(label, x00000040), 5)
        t8 == Shr(BitAnd(label, x00000080), 7)
        new_label == BitOr(BitOr(BitOr(BitOr(BitOr(BitOr(BitOr(t1, t2), t3), t4), t5), t6), t7), t8)
    IN BitOr(BitAnd(b, xfffffff0), new_label)

\* swap_label_bits without the term (label & 0x80) >> 7
swap_label_bits_missing_bit(b) ==
    LET label == BitAnd(b, x000000ff)
        t1 == Shl(BitAnd(label, x00000001), 7)
        t2 == Shl(BitAnd(label, x00000002), 5)
        t3 == Shl(BitAnd(label, x00000004), 3)
        t4 == Shl(BitAnd(label, x00000008), 1)
        t5 == Shr(BitAnd(label, x00000010), 1)
        t6 == Shr(BitAnd(label, x00000020), 3)
        t7 == Shr(BitAnd(label, x00000040), 5)
        new_label == BitOr(BitOr(BitOr(BitOr(BitOr(BitOr(t1, t2), t3), t4), t5), t6), t7)
    IN BitOr(BitAnd(b, xffffff00), new_label)

swap_label_bits(b) ==
    LET label == BitAnd(b, x000000ff)
        t1 == Shl(BitAnd(label, x00000001), 7)
        t2 == Shl(BitAnd(label, x00000002), 5)
        t3 == Shl(BitAnd(label, x00000004), 3)
        t4 == Shl(BitAnd(label, x00000008), 1)
        t5 == Shr(BitAnd(label, x00000010), 1)
        t6 == Shr(BitAnd(label, x00000020), 3)
        t7 == Shr(BitAnd(label, x00000040), 5)
        t8 == Shr(BitAnd(label, x00000080), 7)
        new_label == BitOr(BitOr(BitOr(BitOr(BitOr(BitOr(BitOr(t1, t2), t3), t4), t5), t6), t7), t8)
    IN BitOr(BitAnd(b, xffffff00), new_label)

bits_label_swapped(m) == swap_label_bits(bits(m))

from_bits_label_swapped(b) == <<swap_label_bits(b)>>

ParityError_new(expected, actual) == [expected |-> expected, actual |-> actual]

Ok == [ok |-> TRUE, err |-> ParityError_new(0, 0)]

Err(e) == [ok |-> FALSE, err |-> e]

\* check_parity accepting an even number of ones
check_parity_even(m) ==
    IF count_ones(m[1]) % 2 = 0
    THEN Ok
    ELSE LET parity == AsU8(Shr(m[1], 31))
             expected == Xor8(parity, 1)
         IN Err(ParityError_new(expected, parity))

\* check_parity passing (actual, expected) to ParityError::new
check_parity_swapped_fields(m) ==
    IF count_ones(m[1]) % 2 = 1
    THEN Ok
    ELSE LET parity == AsU8(Shr(m[1], 31))
             expected == Xor8(parity, 1)
         IN Err(ParityError_new(parity, expected))

check_parity(m) ==
    IF count_ones(m[1]) % 2 = 1
    THEN Ok
    ELSE LET parity == AsU8(Shr(m[1], 31))
             expected == Xor8(parity, 1)
         IN Err(ParityError_new(expected, parity))

\* update_parity flipping bit 30
update_parity_bit30(m) ==
    IF check_parity(m).ok
    THEN m
    ELSE <<BitXor(m[1], Shl(x00000001, 30))>>

\* update_parity flipping the parity bit whatever the check says
update_parity_always_flip(m) == <<BitXor(m[1], Shl(x00000001, 31))>>

update_parity(m) ==
    IF check_parity(m).ok
    THEN m
    ELSE <<BitXor(m[1], Shl(x00000001, 31))>>

\* label taken from the low byte as transmitted
label_unswapped(m) == <<AsU8(m[1])>>

label(m) == <<AsU8(swap_label_bits(m[1]))>>

\* ------------------------------------------------------------------------
\* Debug formatting
\* ------------------------------------------------------------------------

Digit == <<"0", "1", "2", "3", "4", "5", "6", "7",
           "8", "9", "a", "b", "c", "d", "e", "f">>

RECURSIVE fmt_lower_hex(_)
\* the digits of a u32 in base 16, most significant first, no leading zero
fmt_lower_hex(x) ==
    LET d == <<Digit[LowBits(x, 4) + 1]>>
        rest == Shr(x, 4)
    IN IF rest = Zero THEN d ELSE fmt_lower_hex(rest) \o d

RECURSIVE fmt_octal(_)
\* the digits of a u8 in base 8, most significant first, no leading zero
fmt_octal(n) ==
    LET d == <<Digit[(n % 8) + 1]>>
        rest == n \div 8
    IN IF rest = 0 THEN d ELSE fmt_octal(rest) \o d

\* the flags `#` and `0` with a width: the prefix, then zeros up to the width
pad_integral(prefix, buf, width) ==
    LET fill == width - Len(prefix) - Len(buf)
    IN prefix \o [i \in 1..(IF fill > 0 THEN fill ELSE 0) |-> "0"] \o buf

\* fmt_message with the width 9
fmt_message_width9(m) ==
    <<"M", "e", "s", "s", "a", "g", "e", "(">>
        \o pad_integral(<<"0", "x">>, fmt_lower_hex(m[1]), 9) \o <<")">>

\* write!(f, "Message({:#010x})", self.0)
fmt_message(m) ==
    <<"M", "e", "s", "s", "a", "g", "e", "(">>
        \o pad_integral(<<"0", "x">>, fmt_lower_hex(m[1]), 10) \o <<")">>

\* write!(f, "Label({:#05o})", self.0)
fmt_label(l) ==
    <<"L", "a", "b", "e", "l", "(">>
        \o pad_integral(<<"0", "o">>, fmt_octal(l[1]), 5) \o <<")">>

\* ------------------------------------------------------------------------
\* Inputs
\* ------------------------------------------------------------------------

\* number of payload bits (from bit 8 upwards) that vary in the inputs
PayloadBits == 1

\* the label bits, the lowest payload bits and the parity bit vary freely
FreeBits == (0..7) \cup (8..(7 + PayloadBits)) \cup {Width - 1}

\* the values of the documentation examples and tests
Examples ==
    { Hex(4096, 86),     \* 0x10000056
      Hex(0, 0),         \* 0x0
      Hex(61500, 52428), \* 0xf03ccccc
      Hex(0, 1),         \* 0x1
      Hex(61756, 52428), \* 0xf13ccccc
      Hex(8772, 13056),  \* 0x22443300
      Hex(8772, 13057),  \* 0x22443301
      Hex(33792, 265),   \* 0x84000109
      Hex(33792, 384),   \* 0x84000180
      Hex(65535, 65535), \* 0xffffffff
      Hex(64206, 4660) } \* 0xface1234

Inputs ==
    { [i \in Bit |-> IF i \in s THEN 1 ELSE 0] : s \in SUBSET FreeBits } \cup Examples

\* ------------------------------------------------------------------------
\* State machine: a caller holding a raw u32 (raw) and a Message (msg);
\* arg is the raw value of the argument of the last call, op the last
\* call, out its result when it is neither a u32 nor a Message.
\* ------------------------------------------------------------------------

NoOut == <<>>

Init ==
    /\ raw \in Inputs
    /\ msg = MessageDefault
    /\ arg = Zero
    /\ op = "init"
    /\ out = NoOut

\* msg = Message::from(raw)
CallFrom ==
    /\ msg' = From(raw)
    /\ arg' = raw
    /\ op' = "from"
    /\ out' = NoOut
    /\ UNCHANGED raw

\* msg = Message::from_bits_label_swapped(raw)
CallFromBitsLabelSwapped ==
    /\ msg' = from_bits_label_swapped(raw)
    /\ arg' = raw
    /\ op' = "from_bits_label_swapped"
    /\ out' = NoOut
    /\ UNCHANGED raw

\* raw = msg.bits()
CallBits ==
    /\ raw' = bits(msg)
    /\ arg' = msg[1]
    /\ op' = "bits"
    /\ out' = NoOut
    /\ UNCHANGED msg

\* raw = u32::from(msg)
CallIntoU32 ==
    /\ raw' = IntoU32(msg)
    /\ arg' = msg[1]
    /\ op' = "into_u32"
    /\ out' = NoOut
    /\ UNCHANGED msg

\* raw = msg.bits_label_swapped()
CallBitsLabelSwapped ==
    /\ raw' = bits_label_swapped(msg)
    /\ arg' = msg[1]
    /\ op' = "bits_label_swapped"
    /\ out' = NoOut
    /\ UNCHANGED msg

\* out = msg.check_parity()
CallCheckParity ==
    /\ out' = check_parity(msg)
    /\ arg' = msg[1]
    /\ op' = "check_parity"
    /\ UNCHANGED <<raw, msg>>

\* msg = msg.update_parity()
CallUpdateParity ==
    /\ msg' = update_parity(msg)
    /\ arg' = msg[1]
    /\ op' = "update_parity"
    /\ out' = NoOut
    /\ UNCHANGED raw

\* out = msg.label()
CallLabel ==
    /\ out' = label(msg)
    /\ arg' = msg[1]
    /\ op' = "label"
    /\ UNCHANGED <<raw, msg>>

\* out = format!("{:?}", msg)
CallFmtMessage ==
    /\ out' = fmt_message(msg)
    /\ arg' = msg[1]
    /\ op' = "fmt_message"
    /\ UNCHANGED <<raw, msg>>

\* out = format!("{:?}", label), label the Label just extracted
CallFmtLabel ==
    /\ op = "label"
    /\ out' = fmt_label(out)
    /\ arg' = Hex(0, out[1])
    /\ op' = "fmt_label"
    /\ UNCHANGED <<raw, msg>>

Next ==
    \/ CallFrom
    \/ CallFromBitsLabelSwapped
    \/ CallBits
    \/ CallIntoU32
    \/ CallBitsLabelSwapped
    \/ CallCheckParity
    \/ CallUpdateParity
    \/ CallLabel
    \/ CallFmtMessage
    \/ CallFmtLabel

Spec == Init /\ [][Next]_vars

\* ------------------------------------------------------------------------
\* Properties
\* ------------------------------------------------------------------------

\* the number of 1-bits of a among the bit positions S
Ones(a, S) == Cardinality({i \in S : a[i] = 1})

\* r is v with the order of bits 0-7 reversed and bits 8-31 kept
LabelReversed(v, r) ==
    \A i \in Bit : r[i] = IF i < 8 THEN v[7 - i] ELSE v[i]

\* the number held in bits 4k..4k+3 of a
Nibble(a, k) == a[4 * k] + 2 * a[4 * k + 1] + 4 * a[4 * k + 2] + 8 * a[4 * k + 3]

\* C1: check_parity returns Ok exactly when the number of 1-bits of all 32
\* bits is odd; on Err, actual is bit 31 and expected its complement.
C1_CheckParity ==
    op = "check_parity" =>
        /\ out.ok <=> (Ones(arg, Bit) % 2 = 1)
        /\ ~out.ok => /\ out.err.actual = arg[31]
                      /\ out.err.expected = 1 - arg[31]
        /\ arg = Hex(0, 0) => ~out.ok
        /\ arg = Hex(61500, 52428) => ~out.ok
        /\ arg = Hex(0, 1) => out.ok
        /\ arg = Hex(61756, 52428) => out.ok

C1_Witness ==
    /\ op = "check_parity"
    /\ arg = Hex(61500, 52428)
    /\ out = Err(ParityError_new(0, 1))

\* C2: the result of update_parity passes check_parity; it is the message
\* itself when the message already passes, and otherwise differs from it in
\* exactly bit 31.
C2_UpdateParity ==
    op = "update_parity" =>
        /\ check_parity(msg).ok
        /\ check_parity(<<arg>>).ok => msg = <<arg>>
        /\ ~check_parity(<<arg>>).ok =>
               \A i \in Bit : (msg[1][i] # arg[i]) <=> (i = 31)
        /\ arg = Hex(8772, 13056) => msg = <<Hex(41540, 13056)>>
        /\ arg = Hex(8772, 13057) => msg = <<Hex(8772, 13057)>>

C2_Witness ==
    /\ op = "update_parity"
    /\ arg = Hex(8772, 13056)
    /\ msg = <<Hex(41540, 13056)>>

\* C3: both label-swapping conversions keep bits 8-31 and put bit 7-i of the
\* input at bit i, for i in 0..7; 0x10000056 becomes 0x1000006a.
C3_LabelSwap ==
    /\ op = "bits_label_swapped" =>
           /\ LabelReversed(arg, raw)
           /\ arg = Hex(4096, 86) => raw = Hex(4096, 106)
    /\ op = "from_bits_label_swapped" =>
           /\ LabelReversed(arg, bits(msg))
           /\ arg = Hex(4096, 86) => bits(msg) = Hex(4096, 106)

C3_Witness ==
    /\ op = "from_bits_label_swapped"
    /\ arg = Hex(4096, 86)
    /\ msg = <<Hex(4096, 106)>>

\* C4: bits_label_swapped undoes from_bits_label_swapped and the other way
\* round: the raw value, respectively the message, is the one started from.
C4_SwapInvolution ==
    [][ /\ (op = "from_bits_label_swapped" /\ op' = "bits_label_swapped")
            => raw' = raw
        /\ (op = "bits_label_swapped" /\ op' = "from_bits_label_swapped")
            => msg' = msg ]_vars

C4_Witness ==
    /\ op = "bits_label_swapped"
    /\ raw # arg
    /\ raw[0] # raw[7]
    /\ msg = from_bits_label_swapped(raw)

\* C5: the label is the number whose bit i is bit 7-i of the message, for i
\* in 0..7; it depends on the low 8 bits only.
C5_Label ==
    op = "label" =>
        /\ out[1] \in 0..255
        /\ \A i \in 0..7 : (out[1] \div (2 ^ i)) % 2 = arg[7 - i]
        /\ \A v \in Examples :
               (\A i \in 0..7 : v[i] = arg[i]) => label(From(v)) = out
        /\ arg = Hex(33792, 265) => out = <<144>>
        /\ arg = Hex(33792, 384) => out = <<1>>

C5_Witness ==
    /\ op = "label"
    /\ arg = Hex(33792, 265)
    /\ out = <<144>>

\* C6: update_parity applied to the result of update_parity changes
\* nothing, the first result passing check_parity.
C6_UpdateParityIdempotent ==
    [][ (op = "update_parity" /\ op' = "update_parity")
            => (check_parity(msg).ok /\ msg' = msg) ]_vars

C6_Witness ==
    /\ op = "update_parity"
    /\ msg = <<arg>>
    /\ msg # From(raw)
    /\ msg # from_bits_label_swapped(raw)

\* C7: Message::from keeps every bit, and bits() and u32::from give back the
\* value the message was made from.
C7_RawRoundTrip ==
    /\ op = "from" => /\ IntoU32(msg) = arg
                      /\ bits(msg) = arg
    /\ op \in {"into_u32", "bits"} => /\ raw = arg
                                       /\ From(raw) = msg

C7_Witness ==
    /\ op = "into_u32"
    /\ raw = Hex(4096, 86)
    /\ msg = <<Hex(4096, 86)>>

\* C8: a Message renders as "Message(0x", its 8 lowercase hexadecimal
\* digits and ")"; a Label as "Label(0o", its 3 octal digits and ")".
C8_DebugRendering ==
    /\ op = "fmt_message" =>
           /\ out = <<"M", "e", "s", "s", "a", "g", "e", "(", "0", "x">>
                      \o [k \in 1..8 |-> Digit[Nibble(arg, 8 - k) + 1]]
                      \o <<")">>
           /\ arg = Zero =>
                  out = <<"M", "e", "s", "s", "a", "g", "e", "(", "0", "x",
                          "0", "0", "0", "0", "0", "0", "0", "0", ")">>
           /\ arg = Hex(65535, 65535) =>
                  out = <<"M", "e", "s", "s", "a", "g", "e", "(", "0", "x",
                          "f", "f", "f", "f", "f", "f", "f", "f", ")">>
    /\ op = "fmt_label" =>
           LET n == LowBits(arg, 8)
           IN /\ out = <<"L", "a", "b", "e", "l", "(", "0", "o">>
                         \o <<Digit[(n \div 64) + 1], Digit[((n \div 8) % 8) + 1],
                              Digit[(n % 8) + 1]>>
                         \o <<")">>
              /\ n = 0 => out = <<"L", "a", "b", "e", "l", "(", "0", "o",
                                  "0", "0", "0", ")">>
              /\ n = 255 => out = <<"L", "a", "b", "e", "l", "(", "0", "o",
                                    "3", "7", "7", ")">>

C8_Witness ==
    /\ op = "fmt_message"
    /\ arg = Hex(0, 265)
    /\ out = <<"M", "e", "s", "s", "a", "g", "e", "(", "0", "x",
               "0", "0", "0", "0", "0", "1", "0", "9", ")">>

\* C9: when check_parity fails, the expected parity is 1 exactly when bits
\* 0-30 hold an even number of 1-bits, and it is bit 31 of the message that
\* update_parity then returns.
C9_ExpectedParity ==
    [][ (op = "check_parity" /\ ~out.ok) =>
            /\ (out.err.expected = 1) <=> (Ones(arg, 0..30) % 2 = 0)
            /\ out.err.expected \in {0, 1}
            /\ op' = "update_parity" => msg'[1][31] = out.err.expected ]_vars

C9_Witness ==
    /\ op = "update_parity"
    /\ arg[31] = 1
    /\ msg[1][31] = 0
    /\ Ones(arg, 0..30) % 2 = 1

\* C10: a message passes check_parity exactly when its label-swapped form
\* does; repairing the parity of a label-swapped message gives the
\* label-swapped form of the repaired message; update_parity keeps the label.
C10_SwapCommutesWithParity ==
    [][ /\ op' = "check_parity" =>
               (out'.ok <=> check_parity(from_bits_label_swapped(arg')).ok)
        /\ (op = "from_bits_label_swapped" /\ op' = "update_parity") =>
               msg' = from_bits_label_swapped(bits(update_parity(From(raw))))
        /\ op' = "update_parity" => label(msg') = label(msg) ]_vars

C10_Witness ==
    /\ op = "update_parity"
    /\ msg # <<arg>>
    /\ <<arg>> = from_bits_label_swapped(raw)
    /\ arg[0] # arg[7]

====
